---- MODULE Spec2Model ----
(***************************************************************************)
(* GeoTutor ITS (src/geotutor_main.py): profile store, problem generator,  *)
(* BKT mastery model, difficulty controller and the session handlers.      *)
(*                                                                         *)
(* Numbers.  Python floats are modelled in fixed point, every operation    *)
(* rounded to nearest (ties to even) as IEEE arithmetic and round() do:    *)
(*   - lengths and areas in hundredths (4.00 is 400),                      *)
(*   - typed answers in thousandths (12.05 is 12050),                      *)
(*   - probabilities in units of 1/Scale.                                  *)
(* The clock is read as one value throughout a run of the program and as a *)
(* later one in the next run.  Failures of file I/O are not modelled.      *)
(***************************************************************************)
EXTENDS Integers, Sequences, FiniteSets, TLC

VARIABLES
    pc,               \* where the process is: boot, onto, login, init, running, exited, crashed
    file,             \* content of students_data.json (STUDENTS_FILE)
    backups,          \* the files students_data.json.bak_<timestamp>
    now,              \* the wall clock, datetime.now(), in seconds
    STUDENTS_DB,      \* module global: the dict of profiles, in insertion order
    ONTOLOGY,         \* module global: result of load_ontology()
    student_id,       \* GeoTutorApp.student_id
    bkt,              \* GeoTutorApp.bkt: [p_known]
    difficulty,       \* GeoTutorApp.difficulty
    shape_var,        \* GeoTutorApp.shape_var
    current_problem,  \* GeoTutorApp.current_problem
    runs,             \* how many times the program has been started
    last              \* history: the step taken last, with its inputs and its outcome

vars == <<pc, file, backups, now, STUDENTS_DB, ONTOLOGY, student_id, bkt,
          difficulty, shape_var, current_problem, runs, last>>

----------------------------------------------------------------------------
(* Bounds of the model *)

MaxAttempts == 2   \* graded answers recorded in the store, all learners together
MaxRuns == 2       \* starts of the program
DrawWidth == 0     \* random.randint(a, b) draws b and the DrawWidth lowest values of a..b
UDraws == 1        \* random.uniform(a, b) draws a+0.04, a+0.08, .. (UDraws values) and b
UStep == 7         \* in the generator harness random.uniform(a, b) draws a, a+UStep/100, .. and b

(* Program constants *)

Scale == 10000     \* fixed-point unit of a probability: 1.0
PGuess == 2000     \* BKT.p_guess = 0.2
PSlip == 1000      \* BKT.p_slip = 0.1
PLearn == 3000     \* BKT.p_learn = 0.3
DefaultMastery == 1000  \* 0.1
Tolerance == 100   \* 0.1, in thousandths

Shapes == {"Triangle", "Square", "Rectangle"}
Difficulties == {"easy", "medium", "hard"}
StudentIds == {"S1", "S2"}
None == [none |-> TRUE]

----------------------------------------------------------------------------
(* Arithmetic *)

Abs(x) == IF x < 0 THEN -x ELSE x

\* n / d rounded to the nearest integer, ties to even (n >= 0, d > 0)
RoundDiv(n, d) ==
    LET q == n \div d
        r == n % d
    IN  IF 2 * r < d THEN q
        ELSE IF 2 * r > d THEN q + 1
        ELSE IF q % 2 = 0 THEN q ELSE q + 1

\* Mutant: round(x, 2), which keeps a length in hundredths as it is
Round1_two_places(x) == x

\* round(x, 1) of a length in hundredths
Round1(x) == 10 * RoundDiv(x, 10)

\* round(p, 3) of a probability
Round3(p) == (Scale \div 1000) * RoundDiv(p, Scale \div 1000)

\* a * b of two probabilities, rounded as one float operation
Mul(a, b) == RoundDiv(a * b, Scale)

----------------------------------------------------------------------------
(* The random source: the draws the model takes from each distribution *)

\* random.randint(a, b), in hundredths: every integer of a..b in the generator harness,
\* the bounded draws in a session
randint(a, b) ==
    IF pc = "gen" THEN {100 * x : x \in a..b}
    ELSE {100 * x : x \in {y \in a..b : y - a < DrawWidth \/ y = b}}

\* random.uniform(a, b), in hundredths: values 0.04 apart above the low end, and the high end
\* (in the generator harness: the grid of step UStep from the low end, and the high end)
uniform(a, b) ==
    IF pc = "gen" THEN {100 * a + UStep * k : k \in 0..((100 * (b - a)) \div UStep)} \cup {100 * b}
    ELSE {100 * a + 4 * k : k \in 1..UDraws} \cup {100 * b}

----------------------------------------------------------------------------
(* generate_problem: the set of problems the random source can produce *)

\* round(0.5 * b * h, 2)
TriangleArea(b, h) == RoundDiv(b * h, 200)

\* round(x * y, 2)
ProductArea(x, y) == RoundDiv(x * y, 100)

generate_problem(shape, diff) ==
    IF diff = "easy" THEN
        IF shape = "Triangle" THEN
            {[base |-> b, height |-> h, area |-> TriangleArea(b, h)] :
                b \in randint(3, 8), h \in randint(3, 8)}
        ELSE IF shape = "Square" THEN
            {[side |-> s, area |-> ProductArea(s, s)] : s \in randint(3, 8)}
        ELSE
            {[length |-> l, width |-> w, area |-> ProductArea(l, w)] :
                l \in randint(4, 8), w \in randint(3, 6)}
    ELSE IF diff = "medium" THEN
        IF shape = "Triangle" THEN
            {[base |-> b, height |-> Round1(h), area |-> TriangleArea(b, h)] :
                b \in randint(6, 12), h \in uniform(5, 10)}
        ELSE IF shape = "Square" THEN
            {[side |-> s, area |-> ProductArea(s, s)] : s \in randint(7, 15)}
        ELSE
            {[length |-> l, width |-> w, area |-> ProductArea(l, w)] :
                l \in randint(8, 15), w \in randint(5, 10)}
    ELSE
        IF shape = "Triangle" THEN
            {[base |-> Round1(b), height |-> Round1(h), area |-> TriangleArea(b, h)] :
                b \in uniform(8, 20), h \in uniform(6, 15)}
        ELSE IF shape = "Square" THEN
            {[side |-> Round1(s), area |-> ProductArea(s, s)] : s \in uniform(10, 25)}
        ELSE
            {[length |-> Round1(l), width |-> Round1(w), area |-> ProductArea(l, w)] :
                l \in uniform(10, 30), w \in uniform(5, 15)}

----------------------------------------------------------------------------
(* BKT.update: the new p_known and the value returned *)

\* the numerator of the Bayesian step
BKT_num(p, correct) == IF correct THEN Mul(p, Scale - PSlip) ELSE Mul(p, PSlip)

\* Mutant: the second term weighted by p_known, not by 1 - p_known
BKT_den_weighted_by_known(p, correct) ==
    IF correct THEN BKT_num(p, correct) + Mul(p, PGuess)
    ELSE BKT_num(p, correct) + Mul(p, Scale - PGuess)

\* the denominator of the Bayesian step
BKT_den(p, correct) ==
    IF correct THEN BKT_num(p, correct) + Mul(Scale - p, PGuess)
    ELSE BKT_num(p, correct) + Mul(Scale - p, Scale - PGuess)

\* Mutant: the rounded value kept as the state
BKT_update_rounded_state(p, correct) ==
    LET num == BKT_num(p, correct)
        den == BKT_den(p, correct)
        post == IF den # 0 THEN RoundDiv(num * Scale, den) ELSE p
        learned == post + Mul(Scale - post, PLearn)
    IN  [p_known |-> Round3(learned), ret |-> Round3(learned)]

\* Mutant: the learning transfer added in full, not scaled by 1 - p_known
BKT_update_unscaled(p, correct) ==
    LET num == BKT_num(p, correct)
        den == BKT_den(p, correct)
        post == IF den # 0 THEN RoundDiv(num * Scale, den) ELSE p
        learned == post + PLearn
    IN  [p_known |-> learned, ret |-> Round3(learned)]

BKT_update(p, correct) ==
    LET num == BKT_num(p, correct)
        den == BKT_den(p, correct)
        post == IF den # 0 THEN RoundDiv(num * Scale, den) ELSE p
        learned == post + Mul(Scale - post, PLearn)
    IN  [p_known |-> learned, ret |-> Round3(learned)]

----------------------------------------------------------------------------
(* The difficulty transition of _check_answer *)

\* Mutant: the promotion chain written with two ifs, so easy runs on to hard
next_difficulty_fallthrough(d, correct) ==
    IF correct THEN
        IF d = "easy" THEN "hard"
        ELSE IF d = "medium" THEN "hard"
        ELSE d
    ELSE
        IF d = "hard" THEN "medium"
        ELSE IF d = "medium" THEN "easy"
        ELSE d

next_difficulty(d, correct) ==
    IF correct THEN
        IF d = "easy" THEN "medium"
        ELSE IF d = "medium" THEN "hard"
        ELSE d
    ELSE
        IF d = "hard" THEN "medium"
        ELSE IF d = "medium" THEN "easy"
        ELSE d

----------------------------------------------------------------------------
(* Python dicts keyed by learner id: a sequence of [id, rec] in insertion   *)
(* order, no id twice                                                      *)

Keys(db) == {db[i].id : i \in DOMAIN db}

IndexOf(db, k) == CHOOSE i \in DOMAIN db : db[i].id = k

\* db[k]
Get(db, k) == db[IndexOf(db, k)].rec

\* Mutant: every key bound to one shared record, so a write to one is seen under all
Put_shared(db, k, r) ==
    IF k \in Keys(db) THEN [i \in DOMAIN db |-> [id |-> db[i].id, rec |-> r]]
    ELSE Append(db, [id |-> k, rec |-> r])

\* Mutant: the dict rebound to a new one holding only the entry assigned
Put_rebound(db, k, r) ==
    IF k \in Keys(db) THEN [db EXCEPT ![IndexOf(db, k)].rec = r]
    ELSE <<[id |-> k, rec |-> r]>>

\* db[k] = r
Put(db, k, r) ==
    IF k \in Keys(db) THEN [db EXCEPT ![IndexOf(db, k)].rec = r]
    ELSE Append(db, [id |-> k, rec |-> r])

\* a == b of two dicts: the same keys with the same values, in any order
DictEq(a, b) ==
    /\ Keys(a) = Keys(b)
    /\ \A k \in Keys(a) : Get(a, k) = Get(b, k)

----------------------------------------------------------------------------
(* json.dump / json.load of the profile mapping.  A JSON document is the   *)
(* sequence of the members of its top-level object; a number is written as *)
(* a literal with a fraction part (a float, by repr, which loses nothing)  *)
(* or without (an int)                                                     *)

JFloat(x) == [tok |-> "number", frac |-> TRUE, val |-> x]
JInt(i) == [tok |-> "number", frac |-> FALSE, val |-> i]
JString(s) == [tok |-> "string", val |-> s]

\* Mutant: the mastery written as displayed, rounded to 3 decimals
encode_profile_rounded(r) ==
    [mastery |-> JFloat(Round3(r.mastery)),
     difficulty |-> JString(r.difficulty),
     attempts |-> JInt(r.attempts),
     correct |-> JInt(r.correct),
     last_login |-> JString(r.last_login)]

encode_profile(r) ==
    [mastery |-> JFloat(r.mastery),
     difficulty |-> JString(r.difficulty),
     attempts |-> JInt(r.attempts),
     correct |-> JInt(r.correct),
     last_login |-> JString(r.last_login)]

decode_profile(o) ==
    [mastery |-> o.mastery.val,
     difficulty |-> o.difficulty.val,
     attempts |-> o.attempts.val,
     correct |-> o.correct.val,
     last_login |-> o.last_login.val]

json_dump(db) ==
    [kind |-> "json",
     members |-> [i \in DOMAIN db |-> [key |-> db[i].id, value |-> encode_profile(db[i].rec)]]]

RECURSIVE load_members(_, _)
load_members(members, n) ==
    IF n = 0 THEN <<>>
    ELSE Put(load_members(members, n - 1), members[n].key, decode_profile(members[n].value))

json_load(text) == load_members(text.members, Len(text.members))

----------------------------------------------------------------------------
(* The profile store *)

Absent == [kind |-> "absent"]

\* load_students() on file content f at time t
load_students(f, bak, t) ==
    IF f.kind = "absent" THEN
        [raised |-> FALSE, db |-> <<>>, file |-> f, backups |-> bak]
    ELSE IF f.kind = "json" THEN
        [raised |-> FALSE, db |-> json_load(f), file |-> f, backups |-> bak]
    ELSE IF f.kind = "corrupt" THEN
        \* json.JSONDecodeError: os.rename to .bak_<timestamp>, then return {}
        [raised |-> FALSE, db |-> <<>>, file |-> Absent,
         backups |-> {b \in bak : b.stamp # t} \cup {[stamp |-> t, content |-> f]}]
    ELSE
        \* the bytes do not decode as text: UnicodeDecodeError is not caught
        [raised |-> TRUE, db |-> None, file |-> f, backups |-> bak]

\* Mutant: only the profile added last is written
save_students_one(db) == json_dump(SubSeq(db, Len(db), Len(db)))

\* save_students(db): the file is rewritten whole
save_students(db) == json_dump(db)

----------------------------------------------------------------------------
(* load_ontology on the state of the artifact and of the reasoner *)

Artifacts == {"missing", "ok", "unloadable"}
Reasoners == {"not_imported", "ok", "throws"}

load_ontology(artifact, reasoner) ==
    IF artifact = "missing" THEN
        [raised |-> FALSE, onto |-> "None", log |-> <<"not found">>]
    ELSE IF artifact = "unloadable" THEN
        \* get_ontology(ONTO_PATH).load() is outside the try
        [raised |-> TRUE, onto |-> "unset", log |-> <<>>]
    ELSE IF reasoner = "not_imported" THEN
        [raised |-> FALSE, onto |-> "onto", log |-> <<"loaded", "reasoner not available">>]
    ELSE IF reasoner = "throws" THEN
        [raised |-> FALSE, onto |-> "onto", log |-> <<"loaded", "reasoner warning">>]
    ELSE
        [raised |-> FALSE, onto |-> "onto", log |-> <<"loaded", "reasoner completed">>]

----------------------------------------------------------------------------
(* The answer entry and float() of its text *)

AnswerOffsets == {-100, 99}

\* what the learner can type for a problem of the given area: decimal numerals
\* around the area on both sides of the tolerance, "nan", a word
Entries(area) ==
    {[kind |-> "decimal", milli |-> 10 * area + d] : d \in AnswerOffsets}
        \cup {[kind |-> k, milli |-> 0] : k \in {"nan", "word"}}

\* Mutant: text that is no float literal is read as 0.0
float_parse_lenient(e) ==
    IF e.kind = "word" THEN [error |-> FALSE, kind |-> "decimal", milli |-> 0]
    ELSE [error |-> FALSE, kind |-> e.kind, milli |-> e.milli]

\* float(text): ValueError for text that is no float literal
float_parse(e) ==
    IF e.kind = "word" THEN [error |-> TRUE, kind |-> "none", milli |-> 0]
    ELSE [error |-> FALSE, kind |-> e.kind, milli |-> e.milli]

\* Mutant: the tolerance compared with <=
is_correct_inclusive(user, area) ==
    /\ user.kind = "decimal"
    /\ Abs(user.milli - 10 * area) <= Tolerance

\* abs(user - correct_area) < 0.1; every comparison with nan is false, abs(inf - x) is inf
is_correct(user, area) ==
    /\ user.kind = "decimal"
    /\ Abs(user.milli - 10 * area) < Tolerance

----------------------------------------------------------------------------
(* The session *)

DefaultProfile(t) ==
    [mastery |-> DefaultMastery, difficulty |-> "easy", attempts |-> 0, correct |-> 0,
     last_login |-> t]

profile == Get(STUDENTS_DB, student_id)

\* the attempts of the first n profiles of db together
RECURSIVE TotalAttempts(_, _)
TotalAttempts(db, n) == IF n = 0 THEN 0 ELSE TotalAttempts(db, n - 1) + db[n].rec.attempts

\* Mutant: correct is counted whatever the judgement
save_profile_counts_all(db, sid, p, d, correct, t) ==
    LET old == Get(db, sid)
    IN  Put(db, sid,
            [mastery |-> p,
             difficulty |-> d,
             attempts |-> old.attempts + 1,
             correct |-> old.correct + 1,
             last_login |-> t])

\* Mutant: attempts is counted only for a correct answer, correct for every answer
save_profile_swapped(db, sid, p, d, correct, t) ==
    LET old == Get(db, sid)
    IN  Put(db, sid,
            [mastery |-> p,
             difficulty |-> d,
             attempts |-> IF correct THEN old.attempts + 1 ELSE old.attempts,
             correct |-> old.correct + 1,
             last_login |-> t])

\* _save_profile up to the call of save_students: the profile dict is the one in STUDENTS_DB
save_profile(db, sid, p, d, correct, t) ==
    LET old == Get(db, sid)
    IN  Put(db, sid,
            [mastery |-> p,
             difficulty |-> d,
             attempts |-> old.attempts + 1,
             correct |-> IF correct THEN old.correct + 1 ELSE old.correct,
             last_login |-> t])

----------------------------------------------------------------------------
(* Initial state: the process has not started; the file is whatever an     *)
(* earlier run or the user left on disk                                    *)

StoredProfile(m, d, a, c) ==
    [mastery |-> m, difficulty |-> d, attempts |-> a, correct |-> c, last_login |-> 0]

InitFiles ==
    {Absent,
     [kind |-> "corrupt", bytes |-> "{\"S1\": {\"mastery\""],
     [kind |-> "undecodable", bytes |-> "\\xff\\xfe"],
     json_dump(<<[id |-> "S2", rec |-> StoredProfile(Scale, "hard", 1, 1)],
                 [id |-> "S1", rec |-> StoredProfile(0, "easy", 0, 0)]>>)}

Unstarted ==
    /\ pc = "boot"
    /\ STUDENTS_DB = <<>>
    /\ ONTOLOGY = "unset"
    /\ student_id = "none"
    /\ bkt = None
    /\ difficulty = "none"
    /\ shape_var = "none"
    /\ current_problem = None

Init ==
    /\ Unstarted
    /\ file \in InitFiles
    /\ backups = {}
    /\ now = 1
    /\ runs = 1
    /\ last = [op |-> "none"]

----------------------------------------------------------------------------
(* Process start: the module-level statements *)

\* STUDENTS_DB = load_students()
Boot ==
    /\ pc = "boot"
    /\ LET r == load_students(file, backups, now)
       IN  /\ pc' = IF r.raised THEN "crashed" ELSE "onto"
           /\ STUDENTS_DB' = IF r.raised THEN <<>> ELSE r.db
           /\ file' = r.file
           /\ backups' = r.backups
           /\ last' = [op |-> "load_students", raised |-> r.raised, found |-> file]
    /\ UNCHANGED <<now, ONTOLOGY, student_id, bkt, difficulty, shape_var, current_problem, runs>>

\* ONTOLOGY = load_ontology()
LoadOntology ==
    /\ pc = "onto"
    /\ \E artifact \in Artifacts, reasoner \in Reasoners :
          LET r == load_ontology(artifact, reasoner)
          IN  /\ pc' = IF r.raised THEN "crashed" ELSE "login"
              /\ ONTOLOGY' = r.onto
              /\ last' = [op |-> "load_ontology", raised |-> r.raised, artifact |-> artifact,
                          reasoner |-> reasoner, log |-> r.log]
    /\ UNCHANGED <<file, backups, now, STUDENTS_DB, student_id, bkt, difficulty, shape_var,
                   current_problem, runs>>

\* student_id = login(): SystemExit on an empty answer or a cancelled dialog
login ==
    /\ pc = "login"
    /\ \E answer \in StudentIds \cup {""} :
          /\ pc' = IF answer = "" THEN "exited" ELSE "init"
          /\ student_id' = IF answer = "" THEN student_id ELSE answer
          /\ last' = [op |-> "login", answer |-> answer]
    /\ UNCHANGED <<file, backups, now, STUDENTS_DB, ONTOLOGY, bkt, difficulty, shape_var,
                   current_problem, runs>>

\* Mutant: BKT() built without the stored mastery, so from its default
GeoTutorApp_init_default_bkt ==
    /\ pc = "init"
    /\ LET db == IF student_id \in Keys(STUDENTS_DB) THEN STUDENTS_DB
                 ELSE Put(STUDENTS_DB, student_id, DefaultProfile(now))
           p == Get(db, student_id)
       IN  /\ STUDENTS_DB' = db
           /\ bkt' = [p_known |-> DefaultMastery]
           /\ difficulty' = p.difficulty
           /\ shape_var' = "Triangle"
           /\ current_problem' \in generate_problem("Triangle", p.difficulty)
    /\ pc' = "running"
    /\ last' = [op |-> "init", created |-> student_id \notin Keys(STUDENTS_DB)]
    /\ UNCHANGED <<file, backups, now, ONTOLOGY, student_id, runs>>

\* GeoTutorApp.__init__: fetch or create the profile, then _new_problem()
GeoTutorApp_init ==
    /\ pc = "init"
    /\ LET db == IF student_id \in Keys(STUDENTS_DB) THEN STUDENTS_DB
                 ELSE Put(STUDENTS_DB, student_id, DefaultProfile(now))
           p == Get(db, student_id)
       IN  /\ STUDENTS_DB' = db
           /\ bkt' = [p_known |-> p.mastery]
           /\ difficulty' = p.difficulty
           /\ shape_var' = "Triangle"
           /\ current_problem' \in generate_problem("Triangle", p.difficulty)
    /\ pc' = "running"
    /\ last' = [op |-> "init", created |-> student_id \notin Keys(STUDENTS_DB)]
    /\ UNCHANGED <<file, backups, now, ONTOLOGY, student_id, runs>>

----------------------------------------------------------------------------
(* The handlers of the running session *)

\* Mutant: a problem left unanswered is counted as an attempt
_new_problem_counted ==
    /\ pc = "running"
    /\ current_problem' \in generate_problem(shape_var, difficulty)
    /\ STUDENTS_DB' = Put(STUDENTS_DB, student_id,
                          [profile EXCEPT !.attempts = profile.attempts + 1])
    /\ last' = [op |-> "new_problem"]
    /\ UNCHANGED <<pc, file, backups, now, ONTOLOGY, student_id, bkt, difficulty,
                   shape_var, runs>>

\* the New Problem button
_new_problem ==
    /\ pc = "running"
    /\ current_problem' \in generate_problem(shape_var, difficulty)
    /\ last' = [op |-> "new_problem"]
    /\ UNCHANGED <<pc, file, backups, now, STUDENTS_DB, ONTOLOGY, student_id, bkt, difficulty,
                   shape_var, runs>>

\* the shape box: the write to shape_var runs the trace, which calls _new_problem
select_shape ==
    /\ pc = "running"
    /\ \E s \in Shapes :
          /\ shape_var' = s
          /\ current_problem' \in generate_problem(s, difficulty)
    /\ last' = [op |-> "select_shape"]
    /\ UNCHANGED <<pc, file, backups, now, STUDENTS_DB, ONTOLOGY, student_id, bkt, difficulty, runs>>

\* Mutant: the example generated at the learner's difficulty
_show_example_at_level ==
    /\ pc = "running"
    /\ \E ex \in generate_problem(shape_var, difficulty) :
          last' = [op |-> "show_example", ex |-> ex]
    /\ UNCHANGED <<pc, file, backups, now, STUDENTS_DB, ONTOLOGY, student_id, bkt, difficulty,
                   shape_var, current_problem, runs>>

\* the Show Example button
_show_example ==
    /\ pc = "running"
    /\ \E ex \in generate_problem(shape_var, "easy") :
          last' = [op |-> "show_example", ex |-> ex]
    /\ UNCHANGED <<pc, file, backups, now, STUDENTS_DB, ONTOLOGY, student_id, bkt, difficulty,
                   shape_var, current_problem, runs>>

\* Mutant: _new_problem() called before the difficulty is adjusted
_check_answer_problem_first ==
    /\ pc = "running"
    /\ IF current_problem = None THEN
          /\ last' = [op |-> "check_answer", outcome |-> "no_problem"]
          /\ UNCHANGED <<file, STUDENTS_DB, bkt, difficulty, current_problem>>
       ELSE
          \E entry \in Entries(current_problem.area) :
             LET user == float_parse(entry)
                 correct == is_correct(user, current_problem.area)
                 upd == BKT_update(bkt.p_known, correct)
                 d == next_difficulty(difficulty, correct)
                 db == save_profile(STUDENTS_DB, student_id, upd.p_known, d, correct, now)
             IN  IF user.error THEN
                    /\ last' = [op |-> "check_answer", outcome |-> "error", entry |-> entry]
                    /\ UNCHANGED <<file, STUDENTS_DB, bkt, difficulty, current_problem>>
                 ELSE
                    /\ TotalAttempts(STUDENTS_DB, Len(STUDENTS_DB)) < MaxAttempts
                    /\ bkt' = [p_known |-> upd.p_known]
                    /\ difficulty' = d
                    /\ STUDENTS_DB' = db
                    /\ file' = save_students(db)
                    /\ current_problem' \in generate_problem(shape_var, difficulty)
                    /\ last' = [op |-> "check_answer", outcome |-> "graded", entry |-> entry,
                                correct |-> correct, ret |-> upd.ret, from |-> difficulty,
                                area |-> current_problem.area]
    /\ UNCHANGED <<pc, backups, now, ONTOLOGY, student_id, shape_var, runs>>

\* the Check Answer button and the Return key
_check_answer ==
    /\ pc = "running"
    /\ IF current_problem = None THEN
          /\ last' = [op |-> "check_answer", outcome |-> "no_problem"]
          /\ UNCHANGED <<file, STUDENTS_DB, bkt, difficulty, current_problem>>
       ELSE
          \E entry \in Entries(current_problem.area) :
             LET user == float_parse(entry)
                 correct == is_correct(user, current_problem.area)
                 upd == BKT_update(bkt.p_known, correct)
                 d == next_difficulty(difficulty, correct)
                 db == save_profile(STUDENTS_DB, student_id, upd.p_known, d, correct, now)
             IN  IF user.error THEN
                    /\ last' = [op |-> "check_answer", outcome |-> "error", entry |-> entry]
                    /\ UNCHANGED <<file, STUDENTS_DB, bkt, difficulty, current_problem>>
                 ELSE
                    /\ TotalAttempts(STUDENTS_DB, Len(STUDENTS_DB)) < MaxAttempts
                    /\ bkt' = [p_known |-> upd.p_known]
                    /\ difficulty' = d
                    /\ STUDENTS_DB' = db
                    /\ file' = save_students(db)
                    /\ current_problem' \in generate_problem(shape_var, d)
                    /\ last' = [op |-> "check_answer", outcome |-> "graded", entry |-> entry,
                                correct |-> correct, ret |-> upd.ret, from |-> difficulty,
                                area |-> current_problem.area]
    /\ UNCHANGED <<pc, backups, now, ONTOLOGY, student_id, shape_var, runs>>

----------------------------------------------------------------------------
(* The environment *)

\* the window is closed (or the process has ended) and the program is started again,
\* later: the clock is read as one value throughout a run and as a later one in the next
Restart ==
    /\ pc \in {"running", "exited", "crashed"}
    /\ runs < MaxRuns
    /\ runs' = runs + 1
    /\ pc' = "boot"
    /\ STUDENTS_DB' = <<>>
    /\ ONTOLOGY' = "unset"
    /\ student_id' = "none"
    /\ bkt' = None
    /\ difficulty' = "none"
    /\ shape_var' = "none"
    /\ current_problem' = None
    /\ now' = now + 1
    /\ last' = [op |-> "restart"]
    /\ UNCHANGED <<file, backups>>

Next ==
    \/ Boot
    \/ LoadOntology
    \/ login
    \/ GeoTutorApp_init
    \/ _new_problem
    \/ select_shape
    \/ _show_example
    \/ _check_answer
    \/ Restart

Spec == Init /\ [][Next]_vars

----------------------------------------------------------------------------
(* BKT alone: a model built from any prior in [0, 1] (BKT.__init__) and    *)
(* updated with any sequence of observations                               *)

NPriors == 100

Priors == {(Scale * k) \div NPriors : k \in 0..NPriors}

InitBKT ==
    /\ pc = "bkt"
    /\ bkt \in {[p_known |-> p] : p \in Priors}
    /\ file = Absent
    /\ backups = {}
    /\ now = 0
    /\ runs = 1
    /\ STUDENTS_DB = <<>>
    /\ ONTOLOGY = "unset"
    /\ student_id = "none"
    /\ difficulty = "none"
    /\ shape_var = "none"
    /\ current_problem = None
    /\ last = [op |-> "BKT", prior |-> bkt.p_known]

update ==
    /\ pc = "bkt"
    /\ \E correct \in BOOLEAN :
          LET upd == BKT_update(bkt.p_known, correct)
          IN  /\ bkt' = [p_known |-> upd.p_known]
              /\ last' = [op |-> "update", correct |-> correct, ret |-> upd.ret,
                          before |-> bkt.p_known]
    /\ UNCHANGED <<pc, file, backups, now, runs, STUDENTS_DB, ONTOLOGY, student_id, difficulty,
                   shape_var, current_problem>>

NextBKT == update

SpecBKT == InitBKT /\ [][NextBKT]_vars

----------------------------------------------------------------------------
(* The generator on its own: one call of generate_problem for any shape and *)
(* difficulty, the random source drawing over the whole of each range      *)

InitGen ==
    /\ pc = "gen"
    /\ shape_var \in Shapes
    /\ difficulty \in Difficulties
    /\ current_problem = None
    /\ file = Absent
    /\ backups = {}
    /\ now = 0
    /\ runs = 1
    /\ STUDENTS_DB = <<>>
    /\ ONTOLOGY = "unset"
    /\ student_id = "none"
    /\ bkt = None
    /\ last = [op |-> "none"]

generate ==
    /\ pc = "gen"
    /\ current_problem = None
    /\ current_problem' \in generate_problem(shape_var, difficulty)
    /\ last' = [op |-> "generate_problem"]
    /\ UNCHANGED <<pc, file, backups, now, runs, STUDENTS_DB, ONTOLOGY, student_id, bkt,
                   difficulty, shape_var>>

NextGen == generate

SpecGen == InitGen /\ [][NextGen]_vars

----------------------------------------------------------------------------
(* Claims *)

Graded == last.op = "check_answer" /\ last.outcome = "graded"

\* C1: every graded answer moves the difficulty by the single-step rule (correct: easy to
\* medium, medium to hard, hard stays; incorrect: hard to medium, medium to easy, easy
\* stays), and the difficulty of a session is always easy, medium or hard.
C1_DifficultyStep ==
    [][/\ pc' = "running" => difficulty' \in {"easy", "medium", "hard"}
       /\ (last'.op = "check_answer" /\ last'.outcome = "graded") =>
             /\ (last'.correct /\ difficulty = "easy") => difficulty' = "medium"
             /\ (last'.correct /\ difficulty = "medium") => difficulty' = "hard"
             /\ (last'.correct /\ difficulty = "hard") => difficulty' = "hard"
             /\ (~last'.correct /\ difficulty = "hard") => difficulty' = "medium"
             /\ (~last'.correct /\ difficulty = "medium") => difficulty' = "easy"
             /\ (~last'.correct /\ difficulty = "easy") => difficulty' = "easy"]_vars

\* C1 witness: a correct answer at hard has been graded and the difficulty is still hard
C1_Witness == Graded /\ last.correct /\ last.from = "hard" /\ difficulty = "hard"

\* C2: a submission that parses as a number adds exactly 1 to the learner's attempts, and
\* exactly 1 to correct if it was judged correct, nothing otherwise.
C2_Counters ==
    [][(last'.op = "check_answer" /\ last'.outcome # "no_problem"
            /\ last'.entry.kind \in {"decimal", "nan"}) =>
          /\ last'.outcome = "graded"
          /\ profile'.attempts = profile.attempts + 1
          /\ profile'.correct = profile.correct + (IF last'.correct THEN 1 ELSE 0)]_vars

\* C2 witness: an answer judged incorrect was counted after one judged correct
C2_Witness == Graded /\ ~last.correct /\ profile.attempts = 2 /\ profile.correct = 1

ProfilesOf(db) == {db[i].rec : i \in DOMAIN db}

Persisted == IF file.kind = "json" THEN ProfilesOf(json_load(file)) ELSE {}

\* C3: every profile, in memory and in the persisted snapshot, has 0 <= correct <= attempts.
C3_CorrectAtMostAttempts ==
    \A r \in ProfilesOf(STUDENTS_DB) \cup Persisted : 0 <= r.correct /\ r.correct <= r.attempts

\* C3 witness: a profile created with defaults (the store was empty) has been through
\* correct and incorrect answers, and an invalid submission came last
C3_Witness ==
    /\ last.op = "check_answer" /\ last.outcome = "error"
    /\ Keys(STUDENTS_DB) = {student_id}
    /\ profile.attempts = 2 /\ profile.correct = 1
    /\ file = json_dump(STUDENTS_DB)

\* C4: from any prior in [0, 1], after any sequence of observations, the mastery
\* probability held by the BKT model is in [0, 1].
C4_MasteryInRange == bkt # None => (0 <= bkt.p_known /\ bkt.p_known <= Scale)

\* C4 witness: an update has taken a model to certainty, and one has left a model below 1
C4_Witness == last.op = "update" /\ last.correct /\ last.before < Scale /\ bkt.p_known = Scale

NonNumeric(entry) == entry.kind = "word"

\* C5: a submission that is not numeric is reported as an error and changes nothing:
\* mastery, difficulty, the profiles (attempts, correct, last_login), the current problem
\* and the persisted file stay as they were.
C5_InvalidAnswerNoMutation ==
    [][(last'.op = "check_answer" /\ last'.outcome # "no_problem" /\ NonNumeric(last'.entry)) =>
          /\ last'.outcome = "error"
          /\ UNCHANGED <<bkt, difficulty, STUDENTS_DB, current_problem, file, backups>>]_vars

\* C5 witness: an invalid submission was rejected while the store held a profile not yet
\* in the file, so a save would have changed the file
C5_Witness ==
    /\ last.op = "check_answer" /\ last.outcome = "error"
    /\ file # json_dump(STUDENTS_DB)

FormulaArea(shape, p) ==
    IF shape = "Triangle" THEN RoundDiv(p.base * p.height, 200)
    ELSE IF shape = "Square" THEN RoundDiv(p.side * p.side, 100)
    ELSE RoundDiv(p.length * p.width, 100)

\* C7: the area a problem carries is the closed-form formula of its shape applied to the
\* dimensions it carries, rounded to 2 decimals.
C7_AreaFromCarriedDimensions ==
    pc = "running" => current_problem.area = FormulaArea(shape_var, current_problem)

\* C7, the part that holds: at easy difficulty, where every dimension is an integer, the
\* area carried is the formula applied to the dimensions carried.
C7_EasyAreaFromCarriedDimensions ==
    (pc = "running" /\ difficulty = "easy") =>
        current_problem.area = FormulaArea(shape_var, current_problem)

\* C8: after a graded answer the file holds the whole in-memory mapping, one member per
\* learner, with the mastery, difficulty and counters just computed for the current learner.
C8_SnapshotAfterGrading ==
    Graded =>
        /\ file.kind = "json"
        /\ Len(file.members) = Len(STUDENTS_DB)
        /\ \A i \in DOMAIN STUDENTS_DB :
              /\ file.members[i].key = STUDENTS_DB[i].id
              /\ decode_profile(file.members[i].value) = STUDENTS_DB[i].rec
        /\ profile.mastery = bkt.p_known
        /\ profile.difficulty = difficulty

\* C8 witness: a graded answer of the learner who is first of two in the store
C8_Witness == Graded /\ Len(STUDENTS_DB) = 2 /\ STUDENTS_DB[1].id = student_id

\* C9: when the file cannot be deserialized, load_students does not raise, returns an empty
\* mapping, and the content found is kept in a .bak_<timestamp> file.
C9_CorruptFileQuarantined ==
    (last.op = "load_students" /\ last.found.kind \in {"corrupt", "undecodable"}) =>
        /\ ~last.raised
        /\ pc # "crashed"
        /\ STUDENTS_DB = <<>>
        /\ \E b \in backups : b.content = last.found

\* C9, the part that holds: a file that is text but not JSON is renamed with its content
\* to a .bak_<timestamp> file, and the run goes on with an empty store.
C9_InvalidJsonQuarantined ==
    (last.op = "load_students" /\ last.found.kind = "corrupt") =>
        /\ ~last.raised
        /\ pc = "onto"
        /\ STUDENTS_DB = <<>>
        /\ file = Absent
        /\ \E b \in backups : b.content = last.found /\ b.stamp = now

EasyDimensions(shape, p) ==
    IF shape = "Triangle" THEN
        /\ p.base \in {100 * x : x \in 3..8}
        /\ p.height \in {100 * x : x \in 3..8}
    ELSE IF shape = "Square" THEN
        p.side \in {100 * x : x \in 3..8}
    ELSE
        /\ p.length \in {100 * x : x \in 4..8}
        /\ p.width \in {100 * x : x \in 3..6}

\* C11: a worked example is generated at easy difficulty whatever the learner's difficulty,
\* and the request leaves mastery, difficulty, the profiles, the current problem and the
\* persisted file unchanged.
C11_ExampleEasyAndPure ==
    [][last'.op = "show_example" =>
          /\ EasyDimensions(shape_var, last'.ex)
          /\ UNCHANGED <<bkt, difficulty, STUDENTS_DB, shape_var, current_problem, file,
                         backups>>]_vars

\* C11 witness: an example was shown to a learner whose difficulty is hard
C11_Witness ==
    /\ last.op = "show_example"
    /\ difficulty = "hard"
    /\ EasyDimensions(shape_var, last.ex)

\* the learner ids of the persisted snapshot
StoreKeys == IF file.kind = "json" THEN {file.members[i].key : i \in DOMAIN file.members} ELSE {}

\* the program has loaded the store in this run
Loaded == pc \in {"onto", "login", "init", "running", "exited"}

\* C12: profiles are never deleted: the key set of the persisted store only grows, once the
\* store is loaded the in-memory mapping holds every persisted id, and within a run the
\* in-memory key set only grows.
C12_KeysOnlyGrow ==
    [][/\ StoreKeys \subseteq StoreKeys'
       /\ Loaded' => StoreKeys' \subseteq Keys(STUDENTS_DB')
       /\ pc' # "boot" => Keys(STUDENTS_DB) \subseteq Keys(STUDENTS_DB')]_vars

\* C12 witness: a learner stored in the first run is still in the mapping and in the snapshot
\* written when another learner is graded in the second run
C12_Witness ==
    /\ Graded /\ runs = 2
    /\ Len(STUDENTS_DB) = 2
    /\ STUDENTS_DB[1].rec.last_login = 1
    /\ STUDENTS_DB[2].id = student_id
    /\ StoreKeys = {"S1", "S2"}

\* C13: startup never aborts because of the reasoning collaborator: whether the artifact is
\* missing, fails to load, or the inference pass throws, nothing is raised, the failure is
\* logged and the program goes on to the login.
C13_OntologyNeverFatal ==
    last.op = "load_ontology" =>
        /\ ~last.raised
        /\ pc = "login"
        /\ (last.artifact # "ok" \/ last.reasoner = "throws") => Len(last.log) > 0

\* C13, the part that holds: a missing artifact and an inference pass that throws are
\* caught and logged, and the program goes on to the login.
C13_MissingOrInferenceFailure ==
    (last.op = "load_ontology" /\ last.artifact # "unloadable") =>
        /\ ~last.raised
        /\ pc = "login"
        /\ Len(last.log) > 0

\* x is an integer length of a..b
IntIn(x, a, b) == x % 100 = 0 /\ 100 * a <= x /\ x <= 100 * b

\* x is a length of [a, b] with at most one decimal place
OneDecimalIn(x, a, b) == x % 10 = 0 /\ 100 * a <= x /\ x <= 100 * b

\* the sampling table of the specification
InTable(shape, diff, p) ==
    IF diff = "easy" THEN
        IF shape = "Triangle" THEN IntIn(p.base, 3, 8) /\ IntIn(p.height, 3, 8)
        ELSE IF shape = "Square" THEN IntIn(p.side, 3, 8)
        ELSE IntIn(p.length, 4, 8) /\ IntIn(p.width, 3, 6)
    ELSE IF diff = "medium" THEN
        IF shape = "Triangle" THEN IntIn(p.base, 6, 12) /\ OneDecimalIn(p.height, 5, 10)
        ELSE IF shape = "Square" THEN IntIn(p.side, 7, 15)
        ELSE IntIn(p.length, 8, 15) /\ IntIn(p.width, 5, 10)
    ELSE
        IF shape = "Triangle" THEN OneDecimalIn(p.base, 8, 20) /\ OneDecimalIn(p.height, 6, 15)
        ELSE IF shape = "Square" THEN OneDecimalIn(p.side, 10, 25)
        ELSE OneDecimalIn(p.length, 10, 30) /\ OneDecimalIn(p.width, 5, 15)

\* C14: for every shape, difficulty and random draw, each dimension of the generated problem
\* is in the closed range of the sampling table and has its type (an integer, or a value with
\* at most one decimal place).
C14_DimensionsInTable ==
    last.op = "generate_problem" => InTable(shape_var, difficulty, current_problem)

\* C14 witness: a hard rectangle at the two ends of its ranges, the width rounded down to 5.0
\* from a draw above it or drawn there
C14_Witness ==
    /\ last.op = "generate_problem"
    /\ shape_var = "Rectangle" /\ difficulty = "hard"
    /\ current_problem.length = 3000 /\ current_problem.width = 500

\* C15: on learner identification an unseen id gets a profile with mastery 0.1, difficulty
\* easy, attempts 0 and correct 0; every record already in the mapping is left as it is; the
\* session's mastery model and difficulty are those of the learner's record; and the record of
\* a known learner is the one of the persisted snapshot, so a session after a restart resumes
\* from what the last graded answer persisted.
C15_FetchOrCreate ==
    [][last'.op = "init" =>
          LET seen == student_id \in Keys(STUDENTS_DB)
              rec == Get(STUDENTS_DB', student_id)
          IN  /\ Keys(STUDENTS_DB') = Keys(STUDENTS_DB) \cup {student_id}
              /\ \A k \in Keys(STUDENTS_DB) : Get(STUDENTS_DB', k) = Get(STUDENTS_DB, k)
              /\ ~seen => /\ rec.mastery = Scale \div 10
                          /\ rec.difficulty = "easy"
                          /\ rec.attempts = 0
                          /\ rec.correct = 0
              /\ seen => /\ file.kind = "json"
                         /\ rec = Get(json_load(file), student_id)
              /\ bkt'.p_known = rec.mastery
              /\ difficulty' = rec.difficulty
              /\ UNCHANGED <<file, backups>>]_vars

\* C15 witness: a session of the second run opened on the record left by two graded answers
\* of the first run, away from the defaults
C15_Witness ==
    /\ last.op = "init" /\ ~last.created
    /\ runs = 2
    /\ profile.last_login = 1 /\ profile.attempts = 2 /\ profile.correct = 2
    /\ bkt.p_known = profile.mastery /\ bkt.p_known # Scale \div 10
    /\ difficulty = "hard"

\* the place of a difficulty on the ladder
Rank(d) == IF d = "easy" THEN 1 ELSE IF d = "medium" THEN 2 ELSE 3

\* C16: a graded answer moves the difficulty at most one step, once, and the problem served
\* after it is generated at the updated difficulty; in every state of a session the current
\* problem is one the generator produces at the session's current difficulty.
C16_ProblemAtCurrentDifficulty ==
    /\ pc = "running" => current_problem \in generate_problem(shape_var, difficulty)
    /\ Graded => Rank(difficulty) - Rank(last.from) \in (IF last.correct THEN {0, 1} ELSE {-1, 0})

\* C16 witness: a correct answer at easy has been graded, and the problem now served is a
\* medium one and not an easy one
C16_Witness ==
    /\ Graded /\ last.correct
    /\ last.from = "easy" /\ difficulty = "medium"
    /\ current_problem \in generate_problem(shape_var, "medium")
    /\ current_problem \notin generate_problem(shape_var, "easy")

\* the Bayesian correctness step with slip 0.1 and guess 0.2
Posterior(p, correct) ==
    IF correct THEN
        RoundDiv(Mul(p, 9 * (Scale \div 10)) * Scale,
                 Mul(p, 9 * (Scale \div 10)) + Mul(Scale - p, 2 * (Scale \div 10)))
    ELSE
        RoundDiv(Mul(p, Scale \div 10) * Scale,
                 Mul(p, Scale \div 10) + Mul(Scale - p, 8 * (Scale \div 10)))

\* the learning transfer p + (1 - p) * 0.3
LearningTransfer(p) == p + Mul(Scale - p, 3 * (Scale \div 10))

\* C17: a graded answer applies the Bayesian step and then the learning transfer to the
\* unrounded mastery held by the model, which keeps the unrounded result; the value returned
\* is that result rounded to 3 decimals, and the mastery written to the profile is the
\* unrounded one.
C17_UnroundedState ==
    [][(last'.op = "check_answer" /\ last'.outcome = "graded") =>
          /\ bkt'.p_known = LearningTransfer(Posterior(bkt.p_known, last'.correct))
          /\ last'.ret = Round3(bkt'.p_known)
          /\ Get(STUDENTS_DB', student_id).mastery = bkt'.p_known]_vars

\* C17 witness: a learner created with the defaults has given two correct answers, the second
\* update made from a mastery that was not a rounded value (0.5333), and the mastery kept and
\* written differs from the value returned
C17_Witness ==
    /\ Graded
    /\ Keys(STUDENTS_DB) = {student_id}
    /\ profile.attempts = 2 /\ profile.correct = 2
    /\ bkt.p_known # last.ret
    /\ profile.mastery = bkt.p_known
    /\ file = json_dump(STUDENTS_DB)

\* C18: for every mastery reachable from a prior in [0, 1] and both correctness values the
\* denominator of the Bayesian step is not zero, so no update skips the correctness step.
C18_DenominatorNonZero ==
    /\ bkt # None => \A c \in BOOLEAN : BKT_den(bkt.p_known, c) # 0
    /\ last.op = "update" => BKT_den(last.before, last.correct) # 0

\* C18 witness: a correct answer observed at mastery 0, where the numerator is 0
C18_Witness ==
    /\ last.op = "update" /\ last.correct
    /\ last.before = 0
    /\ BKT_num(last.before, TRUE) = 0
    /\ bkt.p_known = 3 * (Scale \div 10)

\* C19: a new-problem request, from the button or from a change of the selected shape,
\* leaves the mastery, the difficulty, every profile and the persisted file unchanged; within
\* a session the profiles, the file, the mastery and the difficulty change only in a graded
\* answer, which counts one attempt.
C19_NewProblemOnlyReplacesProblem ==
    [][/\ last'.op \in {"new_problem", "select_shape"} =>
             UNCHANGED <<bkt, difficulty, STUDENTS_DB, file, backups>>
       /\ (pc = "running" /\ pc' = "running"
              /\ <<bkt, difficulty, STUDENTS_DB, file, backups>>' #
                     <<bkt, difficulty, STUDENTS_DB, file, backups>>) =>
             /\ last'.op = "check_answer" /\ last'.outcome = "graded"
             /\ Get(STUDENTS_DB', student_id).attempts = profile.attempts + 1]_vars

\* C19 witness: after one graded answer the learner changed the shape and was served a
\* rectangle, the profile and the file being those the graded answer left
C19_Witness ==
    /\ last.op = "select_shape"
    /\ shape_var = "Rectangle"
    /\ current_problem \in generate_problem("Rectangle", difficulty)
    /\ profile.attempts = 1 /\ profile.last_login = now
    /\ profile.mastery = bkt.p_known /\ profile.difficulty = difficulty
    /\ file = json_dump(STUDENTS_DB)

\* C20: a graded answer leaves the record of every other learner as it was, in the
\* in-memory mapping and in the snapshot written by the answer's save.
C20_OtherLearnersUntouched ==
    [][(last'.op = "check_answer" /\ last'.outcome = "graded") =>
          /\ file'.kind = "json"
          /\ LET written == json_load(file')
             IN  \A k \in Keys(STUDENTS_DB) \ {student_id} :
                    /\ k \in Keys(STUDENTS_DB')
                    /\ Get(STUDENTS_DB', k) = Get(STUDENTS_DB, k)
                    /\ k \in Keys(written)
                    /\ Get(written, k) = Get(STUDENTS_DB, k)
                    /\ k \in StoreKeys => Get(written, k) = Get(json_load(file), k)]_vars

\* C20 witness: the second learner of a store of two has been graded, and the first one's
\* record, in memory and in the file written, is the one the store held from the start
C20_Witness ==
    /\ Graded
    /\ Len(STUDENTS_DB) = 2
    /\ STUDENTS_DB[2].id = student_id
    /\ STUDENTS_DB[1].rec = StoredProfile(Scale, "hard", 1, 1)
    /\ file.kind = "json"
    /\ Get(json_load(file), STUDENTS_DB[1].id) = StoredProfile(Scale, "hard", 1, 1)
    /\ profile.attempts = 1

====
